---- MODULE Spec2Model ----
(***************************************************************************)
(* A model of the firefly-cli stack commands:                              *)
(*   - cmd/init     (initCmd.RunE, validateName, validateCount, the three  *)
(*                   provider validations)                                 *)
(*   - cmd/reset    (resetCmd.RunE)                                        *)
(*   - docker.CreateDockerCompose (the compose topology generator)         *)
(* Go strings that the code parses, trims or lower-cases are sequences of  *)
(* one-character strings; strings that are only compared are TLA+ strings. *)
(* A Go nil error is the value nil.                                        *)
(***************************************************************************)
EXTENDS Integers, Sequences, FiniteSets, TLC

VARIABLES
    cmd,                          \* the command (or function) this process runs
    pc,                           \* its position: the command's name, then "done" or "panic"
    args,                         \* cobra's positional arguments
    force,                        \* the --force flag of reset
    initOptions,                  \* stacks.InitOptions filled from the flags of init
    databaseSelection,            \* --database
    blockchainProviderSelection,  \* --blockchain-provider
    tokensProviderSelection,      \* --tokens-provider
    stacksDir,                    \* the persisted stacks: name -> state of its record and data
    stack,                        \* the types.Stack handed to CreateDockerCompose
    compose,                      \* the DockerComposeConfig it returned
    err,                          \* the error RunE (or the function) returned
    calls                         \* the collaborator calls made, in order, with what they returned

vars == <<cmd, pc, args, force, initOptions, databaseSelection,
          blockchainProviderSelection, tokensProviderSelection,
          stacksDir, stack, compose, err, calls>>

nil == "nil"

(***************************************************************************)
(* Bounds of the model                                                     *)
(***************************************************************************)
MaxLen == 2        \* longest member-count input handed to validateCount alone
MaxExternal == 2   \* largest --external value
MaxMembers == 3    \* most members of a stack handed to CreateDockerCompose alone
MaxStacks == 1     \* most stacks already on disk when a command starts

(***************************************************************************)
(* Go library functions used by the commands                               *)
(***************************************************************************)
Whitespace == {" ", "\t"}

RECURSIVE TrimLeft(_)
TrimLeft(s) ==
    IF s # <<>> /\ Head(s) \in Whitespace THEN TrimLeft(Tail(s)) ELSE s

RECURSIVE TrimRight(_)
TrimRight(s) ==
    IF s # <<>> /\ s[Len(s)] \in Whitespace
    THEN TrimRight(SubSeq(s, 1, Len(s) - 1))
    ELSE s

\* strings.TrimSpace
TrimSpace(s) == TrimRight(TrimLeft(s))

UpperToLower == "Y" :> "y" @@ "N" :> "n" @@ "E" :> "e" @@ "S" :> "s"

\* strings.ToLower
ToLower(s) ==
    [i \in 1..Len(s) |-> IF s[i] \in DOMAIN UpperToLower THEN UpperToLower[s[i]] ELSE s[i]]

DigitValue ==
    "0" :> 0 @@ "1" :> 1 @@ "2" :> 2 @@ "3" :> 3 @@ "4" :> 4 @@
    "5" :> 5 @@ "6" :> 6 @@ "7" :> 7 @@ "8" :> 8 @@ "9" :> 9

\* the value of a run of decimal digits, or -1 when a character is no digit
RECURSIVE ParseDigits(_, _)
ParseDigits(s, acc) ==
    IF s = <<>> THEN acc
    ELSE IF Head(s) \notin DOMAIN DigitValue THEN -1
    ELSE ParseDigits(Tail(s), acc * 10 + DigitValue[Head(s)])

\* strconv.Atoi: an optional sign, then at least one decimal digit; 0 and an
\* error otherwise.  Inputs here are far too short to leave the range of int.
Atoi(s) ==
    LET signed == s # <<>> /\ Head(s) \in {"+", "-"}
        digits == IF signed THEN Tail(s) ELSE s
        v      == ParseDigits(digits, 0)
    IN  IF digits = <<>> \/ v < 0
        THEN [i |-> 0, err |-> "strconv.Atoi: invalid syntax"]
        ELSE [i |-> IF signed /\ Head(s) = "-" THEN 0 - v ELSE v, err |-> nil]

(***************************************************************************)
(* Provider registries (package stacks)                                    *)
(***************************************************************************)
DBSelectionStrings == {"sqlite3", "postgres"}

\* the registry parses more providers than the one the command supports
BlockchainProviderStrings == {"geth", "besu"}

TokensProviderStrings == {"erc1155"}

GoEthereum == "geth"

DatabaseSelectionFromString(input) ==
    IF input \in DBSelectionStrings
    THEN [value |-> input, err |-> nil]
    ELSE [value |-> "", err |-> "unknown database selection"]

BlockchainProviderFromString(input) ==
    IF input \in BlockchainProviderStrings
    THEN [value |-> input, err |-> nil]
    ELSE [value |-> "", err |-> "unknown blockchain provider"]

TokensProviderFromString(input) ==
    IF input \in TokensProviderStrings
    THEN [value |-> input, err |-> nil]
    ELSE [value |-> "", err |-> "unknown tokens provider"]

(***************************************************************************)
(* The persisted stacks.  A name has no record ("absent"), a record whose  *)
(* data is untouched ("clean") or written by a run ("dirty"), a record     *)
(* whose data was cleared only in part ("partial"), or a directory the     *)
(* lookup cannot read ("unreadable").                                      *)
(***************************************************************************)
StackNames == {<<>>, <<" ">>, <<"a">>, <<" ", "a">>, <<"b">>}

RecordStates == {"clean", "dirty", "partial"}

\* stacks.CheckExists: a lookup, never a mutation
CheckExists(stackName) ==
    IF stacksDir[stackName] = "unreadable"
    THEN [exists |-> FALSE, err |-> "cannot read the stack directory"]
    ELSE [exists |-> stacksDir[stackName] \in RecordStates, err |-> nil]

\* the stores a command can find: at most MaxStacks names are not absent
Stores(states) ==
    {s \in [StackNames -> states \cup {"absent"}] :
        Cardinality({n \in StackNames : s[n] # "absent"}) <= MaxStacks}

(***************************************************************************)
(* cmd/init: the validations                                               *)
(***************************************************************************)
ErrEmptyName == "stack name must not be empty"
ErrNameExists == "stack already exists"
ErrInvalidNumber == "invalid number"
ErrNonPositive == "number of members must be greater than zero"
ErrTooManyExternal == "number of external processes should not be equal to or greater than the number of members in the network"
ErrUnsupportedProvider == "geth is currently the only supported blockchain provider"

validateName(stackName) ==
    IF TrimSpace(stackName) = <<>> THEN ErrEmptyName
    ELSE LET c == CheckExists(stackName)
         IN  IF c.exists THEN ErrNameExists ELSE c.err

validateCountOffByOne(input) ==
    LET r == Atoi(input)
    IN  IF r.err # nil THEN ErrInvalidNumber
        ELSE IF r.i <= 0 THEN ErrNonPositive
        ELSE IF initOptions.ExternalProcesses > r.i THEN ErrTooManyExternal
        ELSE nil

validateCount(input) ==
    LET r == Atoi(input)
    IN  IF r.err # nil THEN ErrInvalidNumber
        ELSE IF r.i <= 0 THEN ErrNonPositive
        ELSE IF initOptions.ExternalProcesses >= r.i THEN ErrTooManyExternal
        ELSE nil

validateDatabaseProvider(input) == DatabaseSelectionFromString(input).err

validateBlockchainProvider(input) ==
    LET r == BlockchainProviderFromString(input)
    IN  IF r.err # nil THEN r.err
        ELSE IF r.value # GoEthereum THEN ErrUnsupportedProvider
        ELSE nil

validateTokensProvider(input) == TokensProviderFromString(input).err

\* a bug that would run the tokens validation before the blockchain one
validateFlagsTokensFirst ==
    IF validateDatabaseProvider(databaseSelection) # nil
    THEN validateDatabaseProvider(databaseSelection)
    ELSE IF validateTokensProvider(tokensProviderSelection) # nil
    THEN validateTokensProvider(tokensProviderSelection)
    ELSE validateBlockchainProvider(blockchainProviderSelection)

\* initCmd.RunE, its first three statements: the first failing flag validation
validateFlags ==
    IF validateDatabaseProvider(databaseSelection) # nil
    THEN validateDatabaseProvider(databaseSelection)
    ELSE IF validateBlockchainProvider(blockchainProviderSelection) # nil
    THEN validateBlockchainProvider(blockchainProviderSelection)
    ELSE validateTokensProvider(tokensProviderSelection)

(***************************************************************************)
(* docker.CreateDockerCompose.  A service or volume name "prefix" + ID is  *)
(* the pair <<prefix, ID>>; a volume mount "name:path" is [name, path]; a  *)
(* published port "host:container" is [host, container].                   *)
(***************************************************************************)
StandardLogOptions ==
    [Driver |-> "json-file", Options |-> [maxsize |-> "10m", maxfile |-> "1"]]

NoHealthCheck == "nil"

Range(f) == {f[x] : x \in DOMAIN f}

\* a bug that would make the core service wait for nothing
coreServiceWithoutDependsOn(member) ==
    [Image       |-> "ghcr.io/hyperledger-labs/firefly:latest",
     Ports       |-> <<[host |-> member.ExposedFireflyPort,
                        container |-> member.ExposedFireflyPort],
                       [host |-> member.ExposedFireflyAdminPort,
                        container |-> member.ExposedFireflyAdminPort]>>,
     Environment |-> <<>>,
     Volumes     |-> <<[name |-> <<"firefly_core_", member.ID>>, path |-> "/etc/firefly"]>>,
     DependsOn   |-> <<>>,
     HealthCheck |-> NoHealthCheck,
     Logging     |-> StandardLogOptions]

coreService(member) ==
    [Image       |-> "ghcr.io/hyperledger-labs/firefly:latest",
     Ports       |-> <<[host |-> member.ExposedFireflyPort,
                        container |-> member.ExposedFireflyPort],
                       [host |-> member.ExposedFireflyAdminPort,
                        container |-> member.ExposedFireflyAdminPort]>>,
     Environment |-> <<>>,
     Volumes     |-> <<[name |-> <<"firefly_core_", member.ID>>, path |-> "/etc/firefly"]>>,
     DependsOn   |-> (<<"dataexchange_", member.ID>> :> [condition |-> "service_started"]),
     HealthCheck |-> NoHealthCheck,
     Logging     |-> StandardLogOptions]

postgresService(member) ==
    [Image       |-> "postgres",
     Ports       |-> <<[host |-> member.ExposedPostgresPort, container |-> 5432]>>,
     Environment |-> [POSTGRES_PASSWORD |-> "f1refly",
                      PGDATA |-> "/var/lib/postgresql/data/pgdata"],
     Volumes     |-> <<[name |-> <<"postgres_", member.ID>>,
                        path |-> "/var/lib/postgresql/data"]>>,
     DependsOn   |-> <<>>,
     HealthCheck |-> [Test |-> <<"CMD-SHELL", "pg_isready -U postgres">>,
                      Interval |-> "5s", Timeout |-> "3s", Retries |-> 12],
     Logging     |-> StandardLogOptions]

ipfsService(swarmKey, member) ==
    [Image       |-> "ipfs/go-ipfs",
     Ports       |-> <<[host |-> member.ExposedIPFSApiPort, container |-> 5001],
                       [host |-> member.ExposedIPFSGWPort, container |-> 8080]>>,
     Environment |-> [IPFS_SWARM_KEY |-> swarmKey, LIBP2P_FORCE_PNET |-> "1"],
     Volumes     |-> <<[name |-> <<"ipfs_staging_", member.ID>>, path |-> "/export"],
                       [name |-> <<"ipfs_data_", member.ID>>, path |-> "/data/ipfs"]>>,
     DependsOn   |-> <<>>,
     HealthCheck |-> NoHealthCheck,
     Logging     |-> StandardLogOptions]

dataexchangeService(member) ==
    [Image       |-> "ghcr.io/hyperledger-labs/firefly-dataexchange-https:latest",
     Ports       |-> <<[host |-> member.ExposedDataexchangePort, container |-> 3000]>>,
     Environment |-> <<>>,
     Volumes     |-> <<[name |-> <<"dataexchange_", member.ID>>, path |-> "/data"]>>,
     DependsOn   |-> <<>>,
     HealthCheck |-> NoHealthCheck,
     Logging     |-> StandardLogOptions]

\* a bug that would forget to declare the second content-store volume
ipfsVolumeNamesWithoutData(member) == {<<"ipfs_staging_", member.ID>>}

\* the two compose.Volumes entries of the content-store service
ipfsVolumeNames(member) ==
    {<<"ipfs_staging_", member.ID>>, <<"ipfs_data_", member.ID>>}

\* map assignment m[k] = v
Put(m, k, v) == (k :> v) @@ m

\* the loop body up to the database block: the core service of a member
\* that is not external
addCore(c, member) ==
    IF member.External THEN c
    ELSE [c EXCEPT !.Services = Put(@, <<"firefly_core_", member.ID>>, coreService(member)),
                   !.Volumes  = @ \cup {<<"firefly_core_", member.ID>>}]

\* the database block.  Its last statement assigns into the DependsOn map of
\* compose.Services["firefly_core_"+ID]; when that entry is missing the map
\* lookup yields a nil *Service and the field access panics.
addPostgres(c, database, member) ==
    IF database # "postgres" THEN c
    ELSE LET core == <<"firefly_core_", member.ID>>
             pg   == <<"postgres_", member.ID>>
             c1   == [c EXCEPT !.Services = Put(@, pg, postgresService(member)),
                               !.Volumes  = @ \cup {pg}]
         IN  IF core \notin DOMAIN c1.Services
             THEN [c1 EXCEPT !.panic = TRUE]
             ELSE [c1 EXCEPT !.Services[core].DependsOn =
                                 Put(@, pg, [condition |-> "service_healthy"])]

\* the rest of the loop body: content store and data exchange, for every member
addIPFSAndDataexchange(c, swarmKey, member) ==
    [c EXCEPT !.Services = Put(Put(@, <<"ipfs_", member.ID>>, ipfsService(swarmKey, member)),
                               <<"dataexchange_", member.ID>>, dataexchangeService(member)),
              !.Volumes  = @ \cup ipfsVolumeNames(member)
                             \cup {<<"dataexchange_", member.ID>>}]

\* one iteration of the loop over stack.Members
addMember(c, s, member) ==
    LET c1 == addPostgres(addCore(c, member), s.Database, member)
    IN  IF c1.panic THEN c1 ELSE addIPFSAndDataexchange(c1, s.SwarmKey, member)

RECURSIVE composeMembers(_, _, _)
composeMembers(c, s, i) ==
    IF i > Len(s.Members) \/ c.panic THEN c
    ELSE composeMembers(addMember(c, s, s.Members[i]), s, i + 1)

\* the result: panic is set when the call never returns
CreateDockerCompose(s) ==
    composeMembers([Version |-> "2.1", Services |-> <<>>, Volumes |-> {}, panic |-> FALSE],
                   s, 1)

NoCompose == [Version |-> "", Services |-> <<>>, Volumes |-> {}, panic |-> FALSE]

NoStack == [Name |-> <<>>, Members |-> <<>>, Database |-> "", SwarmKey |-> ""]

(***************************************************************************)
(* stacks.InitStack and its members (package stacks)                       *)
(***************************************************************************)
FireFlyBasePortDefault == 5000
ServicesBasePortDefault == 5100

\* member index's ports: 1 added to the core base port for each member, 100
\* to the services base port, and one offset for each kind of service
createMember(index, options, external) ==
    LET serviceBase == options.ServicesBasePort + index * 100
    IN  [ID                      |-> index,
         ExposedFireflyPort      |-> options.FireFlyBasePort + index,
         ExposedFireflyAdminPort |-> serviceBase + 1,
         ExposedPostgresPort     |-> serviceBase + 4,
         ExposedDataexchangePort |-> serviceBase + 5,
         ExposedIPFSApiPort      |-> serviceBase + 6,
         ExposedIPFSGWPort       |-> serviceBase + 7,
         External                |-> external]

\* the stack InitStack builds: the first ExternalProcesses members are external
newStack(stackName, memberCount, options) ==
    [Name     |-> stackName,
     Members  |-> [i \in 1..memberCount |->
                      createMember(i - 1, options, i - 1 < options.ExternalProcesses)],
     Database |-> options.DatabaseSelection,
     SwarmKey |-> "swarm-key"]

ErrWriteStack == "cannot write the stack directory"

\* stacks.InitStack: builds the members, generates the compose topology and
\* persists the stack as a whole or not at all; ioErr is the outcome of writing
InitStack(stackName, memberCount, options, ioErr) ==
    LET s == newStack(stackName, memberCount, options)
        c == CreateDockerCompose(s)
    IN  IF c.panic
        THEN [panic |-> TRUE, err |-> nil, stacksDir |-> stacksDir,
              stack |-> s, compose |-> NoCompose]
        ELSE IF ioErr # nil
        THEN [panic |-> FALSE, err |-> ioErr, stacksDir |-> stacksDir,
              stack |-> s, compose |-> c]
        ELSE [panic |-> FALSE, err |-> nil,
              stacksDir |-> [stacksDir EXCEPT ![stackName] = "clean"],
              stack |-> s, compose |-> c]

(***************************************************************************)
(* cmd/init: the command                                                   *)
(***************************************************************************)
ErrPrompt == "prompt: cannot read the input"

\* prompt(label, validate): asks until an input passes validate and returns
\* it, or returns an error when the input cannot be read; valid are the inputs
\* that pass validate
promptOutcomes(valid) ==
    {[val |-> v, err |-> nil] : v \in valid} \cup {[val |-> <<>>, err |-> ErrPrompt]}

\* stands for the outcome of a prompt that is not asked
NotAsked == [val |-> <<>>, err |-> nil]

\* member counts typed on the command line or at the prompt
CountArgs == {<<>>, <<"x">>, <<"0">>, <<"-", "1">>, <<"1">>, <<"2">>, <<"3">>, <<"+", "2">>}

\* initCmd.RunE; np and cp are what the two prompts return if they are asked,
\* ioErr what writing the stack returns if InitStack gets that far
initRun(np, cp, ioErr) ==
    LET flagsErr   == validateFlags
        nargs      == Len(args)
        stackName  == IF nargs > 0 THEN args[1] ELSE np.val
        nameErr    == IF nargs > 0 THEN validateName(stackName) ELSE nil
        nameCalls  == IF nargs > 0 THEN <<>>
                      ELSE <<[fn |-> "prompt", label |-> "stack name: ",
                              val |-> np.val, err |-> np.err]>>
        memberCountInput == IF nargs > 1 THEN args[2] ELSE cp.val
        countErr   == IF nargs > 1 THEN validateCount(memberCountInput) ELSE nil
        countCalls == IF nargs > 1 THEN <<>>
                      ELSE <<[fn |-> "prompt", label |-> "number of members: ",
                              val |-> cp.val, err |-> cp.err]>>
        memberCount == Atoi(memberCountInput).i
        options    == [initOptions EXCEPT
                          !.DatabaseSelection = DatabaseSelectionFromString(databaseSelection).value,
                          !.TokensProvider = TokensProviderFromString(tokensProviderSelection).value]
        r          == InitStack(stackName, memberCount, options, ioErr)
        initCall   == [fn |-> "InitStack", stackName |-> stackName,
                       memberCount |-> memberCount, err |-> r.err]
        failed(e, cs) == [pc |-> "done", err |-> e, calls |-> cs, initOptions |-> initOptions,
                          stacksDir |-> stacksDir, stack |-> NoStack, compose |-> NoCompose]
    IN  IF flagsErr # nil THEN failed(flagsErr, <<>>)
        ELSE IF nameErr # nil THEN failed(nameErr, <<>>)
        ELSE IF countErr # nil THEN failed(countErr, nameCalls)
        ELSE [pc          |-> IF r.panic THEN "panic" ELSE "done",
              err         |-> r.err,
              calls       |-> nameCalls \o countCalls \o <<initCall>>,
              initOptions |-> options,
              stacksDir   |-> r.stacksDir,
              stack       |-> r.stack,
              compose     |-> r.compose]

initCmdRunE ==
    /\ pc = "init"
    /\ \E np \in IF Len(args) > 0 THEN {NotAsked}
                   ELSE promptOutcomes({x \in StackNames : validateName(x) = nil}),
          cp \in IF Len(args) > 1 THEN {NotAsked}
                   ELSE promptOutcomes({x \in CountArgs : validateCount(x) = nil}),
          ioErr \in {nil, ErrWriteStack} :
            LET r == initRun(np, cp, ioErr)
            IN  /\ pc' = r.pc
                /\ err' = r.err
                /\ calls' = r.calls
                /\ initOptions' = r.initOptions
                /\ stacksDir' = r.stacksDir
                /\ stack' = r.stack
                /\ compose' = r.compose
    /\ UNCHANGED <<cmd, args, force, databaseSelection,
                   blockchainProviderSelection, tokensProviderSelection>>

(***************************************************************************)
(* cmd/reset                                                               *)
(***************************************************************************)
ErrNoStack == "no stack specified"
ErrStackNotFound == "stack does not exist"
ErrLoadStack == "cannot load the stack"
ErrPromptAbort == "prompt aborted"
ErrClear == "cannot clear the data of the stack"

\* what the confirmation prompt can return as its result
Answers == {<<>>, <<"y">>, <<"Y">>, <<"n">>, <<"N">>, <<"y", "e", "s">>}

\* a bug that would let a missing stack through
resetCheckExistsWithoutNotFound(stackName) == CheckExists(stackName).err

\* resetCmd.RunE, the existence check
resetCheckExists(stackName) ==
    LET c == CheckExists(stackName)
    IN  IF c.err # nil THEN c.err
        ELSE IF ~c.exists THEN ErrStackNotFound
        ELSE nil

\* a bug that would read the answer without looking at the prompt's error
canceledIgnoringPromptError(result, perr) == ToLower(result) # <<"y">>

\* resetCmd.RunE, the test on what the confirmation prompt returned
canceled(result, perr) == perr # nil \/ ToLower(result) # <<"y">>

\* Stack.ResetStack: clears the data of the stack and keeps its record; when
\* clearing fails the data is left as it was or cleared in part
ResetStack(stackName, outcome) ==
    IF outcome = "cleared"
    THEN [err |-> nil, stacksDir |-> [stacksDir EXCEPT ![stackName] = "clean"]]
    ELSE IF outcome = "partial"
    THEN [err |-> ErrClear, stacksDir |-> [stacksDir EXCEPT ![stackName] = "partial"]]
    ELSE [err |-> ErrClear, stacksDir |-> stacksDir]

ResetOutcomes == {"cleared", "partial", "untouched"}

\* resetCmd.RunE; result and perr are what the confirmation prompt returns if
\* it is asked, lerr what LoadStack returns, outcome how ResetStack ends
resetRun(result, perr, lerr, outcome) ==
    LET stackName   == args[1]
        promptCalls == IF force THEN <<>>
                       ELSE <<[fn |-> "prompt.Run", result |-> result, err |-> perr]>>
        loadCall    == [fn |-> "LoadStack", err |-> lerr]
        r           == ResetStack(stackName, outcome)
        resetCall   == [fn |-> "ResetStack", err |-> r.err]
        returns(e, cs, dir) == [err |-> e, calls |-> cs, stacksDir |-> dir]
    IN  IF Len(args) = 0 THEN returns(ErrNoStack, <<>>, stacksDir)
        ELSE IF resetCheckExists(stackName) # nil
        THEN returns(resetCheckExists(stackName), <<>>, stacksDir)
        ELSE IF ~force /\ canceled(result, perr)
        THEN returns(nil, promptCalls, stacksDir)
        ELSE IF lerr # nil
        THEN returns(lerr, promptCalls \o <<loadCall>>, stacksDir)
        ELSE returns(nil, promptCalls \o <<loadCall, resetCall>>, r.stacksDir)

resetCmdRunE ==
    /\ pc = "reset"
    /\ \E result \in IF force THEN {<<>>} ELSE Answers,
          perr \in IF force THEN {nil} ELSE {nil, ErrPromptAbort},
          lerr \in {nil, ErrLoadStack}, outcome \in ResetOutcomes :
            LET r == resetRun(result, perr, lerr, outcome)
            IN  /\ err' = r.err
                /\ calls' = r.calls
                /\ stacksDir' = r.stacksDir
    /\ pc' = "done"
    /\ UNCHANGED <<cmd, args, force, initOptions, databaseSelection,
                   blockchainProviderSelection, tokensProviderSelection, stack, compose>>

(***************************************************************************)
(* validateCount and CreateDockerCompose called on their own               *)
(***************************************************************************)
validateCountCall ==
    /\ pc = "validateCount"
    /\ err' = validateCount(args[1])
    /\ pc' = "done"
    /\ UNCHANGED <<cmd, args, force, initOptions, databaseSelection,
                   blockchainProviderSelection, tokensProviderSelection,
                   stacksDir, stack, compose, calls>>

CreateDockerComposeCall ==
    /\ pc = "CreateDockerCompose"
    /\ LET c == CreateDockerCompose(stack)
       IN  /\ pc' = IF c.panic THEN "panic" ELSE "done"
           /\ compose' = IF c.panic THEN NoCompose ELSE c
    /\ UNCHANGED <<cmd, args, force, initOptions, databaseSelection,
                   blockchainProviderSelection, tokensProviderSelection,
                   stacksDir, stack, err, calls>>

(***************************************************************************)
(* Specifications: one process runs one command, from any flags, arguments *)
(* and persisted stacks it can be started with                             *)
(***************************************************************************)
BoundedSeq(S, n) == UNION {[1..k -> S] : k \in 0..n}

Options(firefly, services, external) ==
    [FireFlyBasePort |-> firefly, ServicesBasePort |-> services,
     ExternalProcesses |-> external, DatabaseSelection |-> "",
     TokensProvider |-> "", Verbose |-> FALSE]

DefaultOptions == Options(FireFlyBasePortDefault, ServicesBasePortDefault, 0)

NoStacks == [n \in StackNames |-> "absent"]

DatabaseInputs == DBSelectionStrings \cup {"mysql"}
BlockchainInputs == BlockchainProviderStrings \cup {"corda"}
TokensInputs == TokensProviderStrings \cup {"erc20"}

InitArgs ==
    {<<>>} \cup {<<n>> : n \in StackNames}
           \cup {<<n, c>> : n \in StackNames, c \in CountArgs}

Init ==
    /\ cmd = "init"
    /\ pc = "init"
    /\ args \in InitArgs
    /\ force = FALSE
    /\ initOptions \in {Options(FireFlyBasePortDefault, ServicesBasePortDefault, e) :
                           e \in 0..MaxExternal}
    /\ databaseSelection \in DatabaseInputs
    /\ blockchainProviderSelection \in BlockchainInputs
    /\ tokensProviderSelection \in TokensInputs
    /\ stacksDir \in Stores({"clean", "unreadable"})
    /\ stack = NoStack
    /\ compose = NoCompose
    /\ err = nil
    /\ calls = <<>>

Next == initCmdRunE

Spec == Init /\ [][Next]_vars

InitReset ==
    /\ cmd = "reset"
    /\ pc = "reset"
    /\ args \in {<<>>} \cup {<<n>> : n \in StackNames}
    /\ force \in BOOLEAN
    /\ initOptions = DefaultOptions
    /\ databaseSelection = "sqlite3"
    /\ blockchainProviderSelection = "geth"
    /\ tokensProviderSelection = "erc1155"
    /\ stacksDir \in Stores(RecordStates \cup {"unreadable"})
    /\ stack = NoStack
    /\ compose = NoCompose
    /\ err = nil
    /\ calls = <<>>

NextReset == resetCmdRunE

SpecReset == InitReset /\ [][NextReset]_vars

CountChars == {"0", "1", "2", "3", "-", "+", "x"}

InitCount ==
    /\ cmd = "validateCount"
    /\ pc = "validateCount"
    /\ args \in {<<input>> : input \in BoundedSeq(CountChars, MaxLen)}
    /\ force = FALSE
    /\ initOptions \in {Options(FireFlyBasePortDefault, ServicesBasePortDefault, e) :
                           e \in (0 - 1)..MaxExternal}
    /\ databaseSelection = "sqlite3"
    /\ blockchainProviderSelection = "geth"
    /\ tokensProviderSelection = "erc1155"
    /\ stacksDir = NoStacks
    /\ stack = NoStack
    /\ compose = NoCompose
    /\ err = nil
    /\ calls = <<>>

NextCount == validateCountCall

SpecCount == InitCount /\ [][NextCount]_vars

\* base ports a user sets with --firefly-base-port and --services-base-port
FireFlyBasePorts == {FireFlyBasePortDefault, ServicesBasePortDefault + 1}
ServicesBasePorts == {ServicesBasePortDefault, FireFlyBasePortDefault}

InitCompose ==
    /\ cmd = "CreateDockerCompose"
    /\ pc = "CreateDockerCompose"
    /\ args = <<>>
    /\ force = FALSE
    /\ initOptions \in {Options(p, s, 0) : p \in FireFlyBasePorts, s \in ServicesBasePorts}
    /\ databaseSelection = "sqlite3"
    /\ blockchainProviderSelection = "geth"
    /\ tokensProviderSelection = "erc1155"
    /\ stacksDir = NoStacks
    /\ \E n \in 0..MaxMembers, database \in DBSelectionStrings :
         \E external \in [1..n -> BOOLEAN] :
            stack = [Name     |-> <<"a">>,
                     Members  |-> [i \in 1..n |-> createMember(i - 1, initOptions, external[i])],
                     Database |-> database,
                     SwarmKey |-> "swarm-key"]
    /\ compose = NoCompose
    /\ err = nil
    /\ calls = <<>>

NextCompose == CreateDockerComposeCall

SpecCompose == InitCompose /\ [][NextCompose]_vars

(***************************************************************************)
(* Properties                                                              *)
(***************************************************************************)
Called(fn, cs) == \E i \in DOMAIN cs : cs[i].fn = fn

\* C1: CreateDockerCompose is total: for every stack, whatever the database
\* and the mix of external members, the call returns a topology (the database
\* dependency is only ever added to a core service that exists).
C1_GenerateIsTotal ==
    cmd = "CreateDockerCompose" => pc # "panic"

\* the first failing rule in the order validateName, validateCount, the three
\* provider parses, then the supported-provider check
SpecOrderError ==
    IF validateName(args[1]) # nil THEN validateName(args[1])
    ELSE IF validateCount(args[2]) # nil THEN validateCount(args[2])
    ELSE IF DatabaseSelectionFromString(databaseSelection).err # nil
    THEN DatabaseSelectionFromString(databaseSelection).err
    ELSE IF BlockchainProviderFromString(blockchainProviderSelection).err # nil
    THEN BlockchainProviderFromString(blockchainProviderSelection).err
    ELSE IF TokensProviderFromString(tokensProviderSelection).err # nil
    THEN TokensProviderFromString(tokensProviderSelection).err
    ELSE IF blockchainProviderSelection # GoEthereum THEN ErrUnsupportedProvider
    ELSE nil

\* C2 as stated: init reports the first failure in the order validateName,
\* validateCount, the three provider validations, the supported-provider check.
C2_SpecOrder ==
    [][(pc = "init" /\ pc' # "init" /\ Len(args) = 2 /\ SpecOrderError # nil)
          => (pc' = "done" /\ err' = SpecOrderError)]_vars

\* the first failing rule in the order database, blockchain (parse, then
\* supported), tokens, then the name and the count given as arguments
CodeOrderError ==
    IF DatabaseSelectionFromString(databaseSelection).err # nil
    THEN DatabaseSelectionFromString(databaseSelection).err
    ELSE IF BlockchainProviderFromString(blockchainProviderSelection).err # nil
    THEN BlockchainProviderFromString(blockchainProviderSelection).err
    ELSE IF blockchainProviderSelection # GoEthereum THEN ErrUnsupportedProvider
    ELSE IF TokensProviderFromString(tokensProviderSelection).err # nil
    THEN TokensProviderFromString(tokensProviderSelection).err
    ELSE IF Len(args) > 0 /\ validateName(args[1]) # nil THEN validateName(args[1])
    ELSE IF Len(args) > 1 /\ validateCount(args[2]) # nil THEN validateCount(args[2])
    ELSE nil

\* C2 amended: init reports the first failure in the order database provider,
\* blockchain provider (unknown, then unsupported), tokens provider, then
\* validateName and validateCount on the name and count given as arguments.
C2_CodeOrder ==
    [][(pc = "init" /\ pc' # "init" /\ CodeOrderError # nil)
          => (pc' = "done" /\ err' = CodeOrderError)]_vars

\* an empty name, an unparsable count and an unknown database together: the
\* database error is the one returned
C2_Witness ==
    /\ cmd = "init" /\ pc = "done"
    /\ Len(args) = 2 /\ args[1] = <<>> /\ args[2] = <<"x">>
    /\ databaseSelection = "mysql"
    /\ err = DatabaseSelectionFromString("mysql").err

\* C3: when clearing the data fails the reset command returns an error, and it
\* returns success after ResetStack only when the data was cleared.
C3_ClearFailureIsReported ==
    (cmd = "reset" /\ pc = "done")
        => /\ (\E i \in DOMAIN calls : calls[i].fn = "ResetStack" /\ calls[i].err # nil)
                => err # nil
           /\ (Called("ResetStack", calls) /\ err = nil) => stacksDir[args[1]] = "clean"

\* C4: InitStack is invoked only after every validation has succeeded on the
\* name, count and providers it works with, and when a validation fails it is
\* not invoked and nothing is persisted.
C4_InitStackOnlyAfterValidation ==
    [][(pc = "init" /\ pc' # "init")
          => /\ \A i \in DOMAIN calls' :
                  calls'[i].fn = "InitStack"
                      => /\ validateFlags = nil
                         /\ validateName(calls'[i].stackName) = nil
                         /\ calls'[i].memberCount > 0
                         /\ initOptions.ExternalProcesses < calls'[i].memberCount
             /\ CodeOrderError # nil
                  => (~Called("InitStack", calls') /\ stacksDir' = stacksDir)]_vars

Affirmative == {<<"y">>, <<"Y">>}

Declined(cs) ==
    \E i \in DOMAIN cs :
        /\ cs[i].fn = "prompt.Run"
        /\ (cs[i].err # nil \/ cs[i].result \notin Affirmative)

\* C5: reset of an existing stack without --force whose confirmation is
\* declined (an answer other than y, or a prompt error) returns success, calls
\* neither LoadStack nor ResetStack and leaves the persisted stacks unchanged.
C5_DeclinedResetIsNoOp ==
    [][(pc = "reset" /\ pc' = "done" /\ ~force /\ Declined(calls'))
          => /\ err' = nil
             /\ ~Called("LoadStack", calls')
             /\ ~Called("ResetStack", calls')
             /\ stacksDir' = stacksDir]_vars

\* a dirty stack, no --force, the prompt answered n
C5_Witness ==
    /\ cmd = "reset" /\ pc = "done" /\ ~force
    /\ Len(args) = 1 /\ stacksDir[args[1]] = "dirty"
    /\ Len(calls) = 1 /\ calls[1].fn = "prompt.Run"
    /\ calls[1].result = <<"n">> /\ calls[1].err = nil
    /\ err = nil

\* C6: reset of a name with no persisted record fails with the stack-not-found
\* error, with or without --force, before any prompt, load or clearing, and
\* leaves the persisted stacks unchanged.
C6_ResetOfMissingStackFails ==
    [][(pc = "reset" /\ pc' = "done" /\ Len(args) > 0 /\ stacksDir[args[1]] = "absent")
          => /\ err' = ErrStackNotFound
             /\ calls' = <<>>
             /\ stacksDir' = stacksDir]_vars

\* a forced reset of a name that has no record
C6_Witness ==
    /\ cmd = "reset" /\ pc = "done" /\ force
    /\ Len(args) = 1 /\ stacksDir[args[1]] = "absent"
    /\ err = ErrStackNotFound

\* C7: for a parsable count m and e external processes validateCount succeeds
\* exactly when m > 0 and e < m; it fails with the non-positive error when
\* m <= 0 and with the too-many-external error when m > 0 and e >= m.
C7_ValidateCount ==
    (cmd = "validateCount" /\ pc = "done" /\ Atoi(args[1]).err = nil)
        => LET m == Atoi(args[1]).i
               e == initOptions.ExternalProcesses
           IN  /\ (err = nil) <=> (m > 0 /\ e < m)
               /\ m <= 0 => err = ErrNonPositive
               /\ (m > 0 /\ e >= m) => err = ErrTooManyExternal

\* a count one above the external count is accepted
C7_Witness ==
    /\ cmd = "validateCount" /\ pc = "done"
    /\ Atoi(args[1]).err = nil
    /\ initOptions.ExternalProcesses >= 1
    /\ Atoi(args[1]).i = initOptions.ExternalProcesses + 1
    /\ err = nil

\* every published port of the topology, with the service and position it is at
PublishedPorts(c) ==
    UNION {{<<name, i>> : i \in DOMAIN c.Services[name].Ports} : name \in DOMAIN c.Services}

HostPort(c, p) == c.Services[p[1]].Ports[p[2]].host

\* C8: the host ports published by all the generated services are pairwise
\* distinct, for every member count and every choice of the two base ports.
C8_PortDisjointness ==
    (cmd = "CreateDockerCompose" /\ pc = "done")
        => \A p \in PublishedPorts(compose), q \in PublishedPorts(compose) :
              p # q => HostPort(compose, p) # HostPort(compose, q)

MountedVolumeNames(c) ==
    UNION {{v.name : v \in Range(c.Services[name].Volumes)} : name \in DOMAIN c.Services}

\* C9: in every returned topology the volumes the services mount are exactly
\* the declared volumes.
C9_VolumeClosure ==
    (cmd = "CreateDockerCompose" /\ pc = "done")
        => MountedVolumeNames(compose) = compose.Volumes

\* a returned topology of a stack with an external and a managed member
C9_Witness ==
    /\ cmd = "CreateDockerCompose" /\ pc = "done"
    /\ \E i \in DOMAIN stack.Members : stack.Members[i].External
    /\ \E i \in DOMAIN stack.Members : ~stack.Members[i].External
    /\ compose.Volumes # {}

ServicesOf(c, prefix) == {name \in DOMAIN c.Services : name[1] = prefix}

\* C10: each managed member's core service depends on that member's data
\* exchange (started), on that member's database (healthy) exactly under
\* postgres, and on nothing else; there is one core service per managed member,
\* one database per member under postgres and none otherwise, and one content
\* store and one data exchange per member.
C10_DependencyStructure ==
    (cmd = "CreateDockerCompose" /\ pc = "done")
        => LET members == Range(stack.Members)
               managed == {m \in members : ~m.External}
               postgres == stack.Database = "postgres"
           IN  /\ \A m \in managed :
                    LET core == <<"firefly_core_", m.ID>>
                        dx   == <<"dataexchange_", m.ID>>
                        pg   == <<"postgres_", m.ID>>
                    IN  /\ core \in DOMAIN compose.Services
                        /\ LET deps == compose.Services[core].DependsOn
                           IN  /\ dx \in DOMAIN deps
                               /\ deps[dx] = [condition |-> "service_started"]
                               /\ pg \in DOMAIN deps <=> postgres
                               /\ postgres => deps[pg] = [condition |-> "service_healthy"]
                               /\ DOMAIN deps \subseteq {dx, pg}
                               /\ DOMAIN deps \subseteq DOMAIN compose.Services
               /\ Cardinality(ServicesOf(compose, "firefly_core_")) = Cardinality(managed)
               /\ Cardinality(ServicesOf(compose, "postgres_")) =
                      IF postgres THEN Cardinality(members) ELSE 0
               /\ Cardinality(ServicesOf(compose, "ipfs_")) = Cardinality(members)
               /\ Cardinality(ServicesOf(compose, "dataexchange_")) = Cardinality(members)
               /\ postgres => managed = members

\* two managed members under postgres
C10_Witness ==
    /\ cmd = "CreateDockerCompose" /\ pc = "done"
    /\ stack.Database = "postgres" /\ Len(stack.Members) = 2
    /\ Cardinality(ServicesOf(compose, "firefly_core_")) = 2
    /\ Cardinality(ServicesOf(compose, "postgres_")) = 2

====
